---- MODULE Spec2Model ----
(***************************************************************************)
(* A model of the console progress bar of src/progressbar.go.              *)
(*                                                                         *)
(* The file holds two versions of the library.  "Variant B" is lines       *)
(* 1077-2113 (constructor New64); its definitions keep the source names.   *)
(* "Variant A" is lines 1-1075 (constructor NewOptions64); its definitions *)
(* carry the prefix A_.                                                    *)
(*                                                                         *)
(* Time is counted in ticks of half a second (TicksPerSecond = 2).  A      *)
(* string written to the output or kept in state.rendered is a record of   *)
(* the parts the code concatenates; StringWidth gives its rune count.      *)
(* The options fullWidth, showBytes, colorCodes and a custom theme are     *)
(* never switched on, so their branches are left out of renderProgressBar. *)
(***************************************************************************)
EXTENDS Integers, Sequences, FiniteSets, TLC

VARIABLES
    config,   \* p.config
    state,    \* p.state
    out,      \* what the last call wrote to config.writer, in order, with a
              \* mark for each Write that failed and for each call of onCompletion
    now,      \* the reading config.now() / time.Now() gives
    calls,    \* number of public calls made so far
    lastOp,   \* the last public call: its name, argument and a few fields before it
    ret,      \* what the last public call returned
    mu,       \* sync.Mutex of the bar: 0 when free, else the goroutine holding it
    pc,       \* per goroutine: its position in Add
    tmp,      \* per goroutine: the value of currentNum it loaded
    arch,     \* the architecture the program was built for
    hist      \* what an observer of the bar has seen so far (history)

vars == <<config, state, out, now, calls, lastOp, ret, mu, pc, tmp, arch, hist>>

(***************************************************************************)
(* Bounds of the model.                                                    *)
(***************************************************************************)
MaxCalls == 3
MaxClock == 2
MaxDelta == 2
MaxProcs == 3

(***************************************************************************)
(* Values of the Go run time.                                              *)
(***************************************************************************)
Nil == "nil"
ErrExceeds == "current number exceeds max"
ErrNonneg == "max must be nonnegative"
ErrWrite == "write error"
Panic == "panic: integer divide by zero"

\* the zero time.Time{} lies far before every reading of the clock
ZeroTime == -1000000
\* int64's smallest value, scaled down
IntMin == -(2^10)
IntMax == -IntMin - 1
\* int64 arithmetic wraps around
Wrap(x) == ((x - IntMin) % (2 * (-IntMin))) + IntMin

\* A float64 to integer conversion of a value the integer type cannot hold is
\* implementation-dependent: amd64 gives the minimum whatever the value,
\* arm64 gives 0 for a NaN and the nearest bound else.
Archs == {"amd64", "arm64"}
NaNToInt(a) == IF a = "amd64" THEN IntMin ELSE 0
ToInt(q, a) ==
    IF q > IntMax THEN (IF a = "amd64" THEN IntMin ELSE IntMax)
    ELSE IF q < IntMin THEN IntMin
    ELSE q

TicksPerSecond == 2

Abs(x) == IF x < 0 THEN -x ELSE x
Sign(x) == IF x < 0 THEN -1 ELSE 1

\* Go's integer remainder: truncated, the sign follows the dividend
GoMod(a, b) == Sign(a) * (Abs(a) % Abs(b))

\* Go's integer quotient and float-to-int conversion: truncated towards zero
TruncDiv(a, b) == Sign(a) * Sign(b) * (Abs(a) \div Abs(b))

\* math.Round and Duration.Round of a/b: half away from zero
RoundDiv(a, b) == Sign(a) * Sign(b) * ((2 * Abs(a) + Abs(b)) \div (2 * Abs(b)))

\* the "%0.0f" of fmt for a/b, b > 0: to the nearest, a half to the even one
RoundEven(a, b) ==
    Sign(a) * (IF 2 * (Abs(a) % b) > b
                  \/ (2 * (Abs(a) % b) = b /\ (Abs(a) \div b) % 2 = 1)
               THEN (Abs(a) \div b) + 1
               ELSE Abs(a) \div b)

RECURSIVE Digits(_)
Digits(n) == IF n < 10 THEN 1 ELSE 1 + Digits(n \div 10)

\* length of the decimal text of an integer
IntLen(n) == IF n = IntMin THEN 20 ELSE IF n < 0 THEN 1 + Digits(-n) ELSE Digits(n)

\* length of time.Duration.String() for a whole number of seconds
DurLen(sec) ==
    LET a == Abs(sec)
        sg == IF sec < 0 THEN 1 ELSE 0
    IN  IF a < 60 THEN sg + Digits(a) + 1
        ELSE IF a < 3600 THEN sg + Digits(a \div 60) + 1 + Digits(a % 60) + 1
        ELSE sg + Digits(a \div 3600) + 1 + Digits((a % 3600) \div 60) + 1
                + Digits(a % 60) + 1

RECURSIVE Gcd(_, _)
Gcd(a, b) == IF b = 0 THEN a ELSE Gcd(b, a % b)

(***************************************************************************)
(* float64 rates: a fraction n/d with d > 0, or +Inf (d = 0, n > 0).       *)
(***************************************************************************)
Frac(n, d) ==
    IF d = 0 THEN [n |-> 1, d |-> 0]
    ELSE LET g == Gcd(Abs(n), Abs(d))
         IN  IF g = 0 THEN [n |-> 0, d |-> 1]
             ELSE [n |-> Sign(d) * (n \div g), d |-> Abs(d) \div g]
IsInf(r) == r.d = 0
FracAdd(a, b) ==
    IF IsInf(a) \/ IsInf(b) THEN [n |-> 1, d |-> 0]
    ELSE Frac(a.n * b.d + b.n * a.d, a.d * b.d)
\* r > p/q, for q > 0
FracGt(r, p, q) == IsInf(r) \/ (r.d > 0 /\ r.n * q > p * r.d)

RECURSIVE SumRates(_)
SumRates(xx) == IF xx = <<>> THEN [n |-> 0, d |-> 1]
                ELSE FracAdd(Head(xx), SumRates(Tail(xx)))

\* total / float64(len(xx))
MeanOf(total, n) == IF IsInf(total) THEN total ELSE Frac(total.n, total.d * n)

average(xx) == MeanOf(SumRates(xx), Len(xx))

\* d.Seconds() of a difference of two clock readings, as a fraction
Seconds(ticks) == Frac(ticks, TicksPerSecond)
\* float64(num) / t, t a number of ticks
RatePerSecond(num, ticks) == Frac(num * TicksPerSecond, ticks)

(***************************************************************************)
(* Variant B.  A machine m is the bar while a call runs on it:             *)
(* m.c is p.config, m.s is p.state, m.out what the call has written so     *)
(* far and m.err the error value of the function that just returned.       *)
(***************************************************************************)
RateCap == 10
SpinnerLen == 4

\* the empty string
NoText == [k |-> "empty"]

\* the mark a Write that returned an error leaves in out: nothing was written
Failed == [k |-> "failed"]

\* the mark a call of config.onCompletion leaves in out
Completed == [k |-> "completed"]

\* rune count of the text of a parenthesized cluster part
PartLen(p) ==
    IF p.p = "count"
    THEN IntLen(p.cur) + 1 + (IF p.of = <<>> THEN 1 ELSE IntLen(p.of[1]))
    ELSE (IF p.inf THEN 4 ELSE IntLen(p.v) + (IF p.neg0 THEN 1 ELSE 0)) + 1 + 2 + 1
         + (IF p.unit = "min" THEN 3 ELSE 1)

RECURSIVE PartsLen(_)
PartsLen(ps) == IF ps = <<>> THEN 0
                ELSE PartLen(Head(ps)) + (IF Len(ps) > 1 THEN 2 ELSE 0) + PartsLen(Tail(ps))

\* sb.String(): "(" parts joined by ", " ")" or nothing
ClusterLen(ps) == IF ps = <<>> THEN 0 ELSE 2 + PartsLen(ps)

\* " [left]" or " [left:right]" or nothing
BracLen(b) ==
    IF b = <<>> THEN 0
    ELSE IF Len(b) = 1 THEN 3 + DurLen(b[1])
    ELSE 4 + DurLen(b[1]) + DurLen(b[2])

\* utf8.RuneCountInString of a rendered frame
TextLen(f) ==
    IF f.k = "empty" THEN 0
    ELSE (IF f.k = "bar"
          THEN (IF IntLen(f.pct) > 3 THEN IntLen(f.pct) ELSE 3) + 2
               + 1 + f.fill + f.pad + 1
          ELSE IF f.k = "spin" THEN 2
          ELSE IF f.mark THEN 4 ELSE 0)
         + (IF f.desc # "" THEN 1 + Len(f.desc) ELSE 0)
         + (IF f.cluster # <<>> THEN 1 + ClusterLen(f.cluster) ELSE 0)
         + BracLen(f.brac) + 1

getStringWidth(c, w) ==
    \* the ANSI sequence is stripped by ansiRegex, the leading "\r" is counted
    IF w.k = "frame" THEN TextLen(w.f) + (IF w.ansi THEN 1 ELSE 0) ELSE 0

\* a writeString that tries the writer before it looks at visible
writeStringM(m, str) ==
    IF m.c.writer = "broken" THEN [m EXCEPT !.out = Append(@, Failed), !.err = ErrWrite]
    ELSE IF ~m.c.visible THEN [m EXCEPT !.err = Nil]
    ELSE [m EXCEPT !.out = Append(@, str), !.err = Nil]
writeString(m, str) ==
    IF ~m.c.visible THEN [m EXCEPT !.err = Nil]
    ELSE IF m.c.writer = "broken" THEN [m EXCEPT !.out = Append(@, Failed), !.err = ErrWrite]
    ELSE [m EXCEPT !.out = Append(@, str), !.err = Nil]

clearProgressBar(m) ==
    IF m.s.maxLineWidth = 0 THEN [m EXCEPT !.err = Nil]
    ELSE IF m.c.useANSICodes THEN writeString(m, [k |-> "ansiclear"])
    ELSE writeString(m, [k |-> "blank", n |-> m.s.maxLineWidth])

\* the rate renderProgressBar displays
DisplayRate(c, s, t) ==
    IF ~s.finished /\ ~c.totalRate /\ Len(s.counterLastTenRates) > 0
    THEN average(s.counterLastTenRates)
    ELSE IF t - s.startTime > 0
    THEN RatePerSecond(s.currentBytes, t - s.startTime)
    ELSE Frac(0, 1)

\* "%0.0f it/<unit>" of a rounded rate v; a negative rate that rounds to
\* zero prints as "-0" and an infinite one as "+Inf"
ItsPart(v, negative, inf, unit) ==
    [p |-> "its", v |-> v, inf |-> inf, neg0 |-> (~inf /\ negative /\ v = 0),
     unit |-> unit]

\* a cluster that counts with the counter, which a spinner reduces modulo width
ClusterM(c, s, rate) ==
    LET count ==
            IF ~c.showIterationsCount THEN <<>>
            ELSE IF ~c.ignoreLength
            THEN <<[p |-> "count", cur |-> s.currentNum, of |-> <<c.max>>]>>
            ELSE IF ~s.finished \/ s.stopped
            THEN <<[p |-> "count", cur |-> s.currentNum, of |-> <<>>]>>
            ELSE <<[p |-> "count", cur |-> s.currentNum, of |-> <<s.currentNum>>]>>
        its ==
            IF ~c.showIterationsPerSecond THEN <<>>
            ELSE IF IsInf(rate)
            THEN <<ItsPart(0, FALSE, TRUE, "s")>>
            ELSE IF FracGt(rate, 1618, 1000) \/ rate.n = 0
            THEN <<ItsPart(RoundDiv(rate.n, rate.d), rate.n < 0, FALSE, "s")>>
            ELSE IF FracGt(Frac(60 * rate.n, rate.d), 1618, 1000)
            THEN <<ItsPart(RoundDiv(60 * rate.n, rate.d), rate.n < 0, FALSE, "min")>>
            ELSE <<ItsPart(RoundDiv(3600 * rate.n, rate.d), rate.n < 0, FALSE, "h")>>
    IN  count \o its
\* the parts of the parenthesized cluster
Cluster(c, s, rate) ==
    LET count ==
            IF ~c.showIterationsCount THEN <<>>
            ELSE IF ~c.ignoreLength
            THEN <<[p |-> "count", cur |-> s.currentBytes, of |-> <<c.max>>]>>
            ELSE IF ~s.finished \/ s.stopped
            THEN <<[p |-> "count", cur |-> s.currentBytes, of |-> <<>>]>>
            ELSE <<[p |-> "count", cur |-> s.currentBytes, of |-> <<s.currentBytes>>]>>
        its ==
            IF ~c.showIterationsPerSecond THEN <<>>
            ELSE IF IsInf(rate)
            THEN <<ItsPart(0, FALSE, TRUE, "s")>>
            ELSE IF FracGt(rate, 1618, 1000) \/ rate.n = 0
            THEN <<ItsPart(RoundDiv(rate.n, rate.d), rate.n < 0, FALSE, "s")>>
            ELSE IF FracGt(Frac(60 * rate.n, rate.d), 1618, 1000)
            THEN <<ItsPart(RoundDiv(60 * rate.n, rate.d), rate.n < 0, FALSE, "min")>>
            ELSE <<ItsPart(RoundDiv(3600 * rate.n, rate.d), rate.n < 0, FALSE, "h")>>
    IN  count \o its

\* rightBrac: the estimate of the remaining time in seconds, or nothing.
\* The estimate is a float64 converted to a time.Duration, an int64 (here of
\* ticks), and then rounded to the second.
RightBrac(c, s, rate, a) ==
    IF c.predictTime /\ c.max >= s.currentNum /\ s.currentNum > 0
    THEN IF IsInf(rate) \/ rate.n <= 0 THEN <<0>>
         ELSE <<RoundDiv(ToInt(TruncDiv((c.max - s.currentNum) * rate.d * TicksPerSecond,
                                        rate.n), a),
                         TicksPerSecond)>>
    ELSE <<>>

\* leftBrac: the elapsed time in seconds, or nothing
LeftBrac(c, s, t) ==
    IF c.predictTime \/ c.elapsedTime
    THEN <<RoundDiv(t - s.startTime, TicksPerSecond)>>
    ELSE <<>>

\* strings.Repeat(s, n): nothing for a count below one
RepeatCount(n) == IF n < 0 THEN 0 ELSE n

\* the text renderProgressBar composes from the cluster and the two times
FrameText(c, s, cluster, left, right, t) ==
    IF c.ignoreLength
    THEN IF ~s.finished
         THEN [k |-> "spin",
               glyph |-> ((10 * (t - s.startTime)) \div TicksPerSecond) % SpinnerLen,
               desc |-> c.description, cluster |-> cluster,
               brac |-> IF c.elapsedTime THEN left ELSE <<>>]
         ELSE [k |-> "done", mark |-> ~s.stopped,
               desc |-> c.description, cluster |-> cluster,
               brac |-> IF c.elapsedTime THEN left ELSE <<>>]
    ELSE [k |-> "bar", desc |-> c.description, pct |-> s.currentPercent,
          fill |-> RepeatCount(s.currentSaucerSize),
          pad |-> RepeatCount(Wrap(c.width - s.currentSaucerSize)),
          cluster |-> cluster,
          brac |-> IF right = <<>> \/ s.finished
                   THEN (IF c.elapsedTime \/ c.predictTime THEN left ELSE <<>>)
                   ELSE left \o right]

Frame(c, s, t, a) ==
    FrameText(c, s, Cluster(c, s, DisplayRate(c, s, t)), LeftBrac(c, s, t),
              RightBrac(c, s, DisplayRate(c, s, t), a), t)

\* what writeString is handed: the frame behind "\r" or the ANSI sequence
FrameString(c, f) == [k |-> "frame", f |-> f, ansi |-> c.useANSICodes]

\* the tail of renderProgressBar: keep the text, write it, measure it
writeFrame(m, f) ==
    [m |-> writeString([m EXCEPT !.s.rendered = f], FrameString(m.c, f)),
     w |-> getStringWidth(m.c, FrameString(m.c, f))]

\* returns the machine and the width of what was written
renderProgressBar(m, t, a) == writeFrame(m, Frame(m.c, m.s, t, a))

\* the check at the head of the re-render: is the bar finished now
RenderFinishedM(finished, currentNum, max, stopped) ==
    currentNum >= max \/ stopped
RenderFinished(finished, currentNum, max, stopped) ==
    IF ~finished /\ (currentNum >= max \/ stopped) THEN TRUE ELSE finished

\* a render that keeps the width of the last frame, not of the widest
renderWrittenM(r, t) ==
    IF r.m.err # Nil THEN r.m
    ELSE [r.m EXCEPT !.s.maxLineWidth = r.w,
                     !.s.lastShown = t]
\* render after renderProgressBar returned r
renderWritten(r, t) ==
    IF r.m.err # Nil THEN r.m
    ELSE [r.m EXCEPT !.s.maxLineWidth = IF r.w > @ THEN r.w ELSE @,
                     !.s.lastShown = t]

\* render after the old line was blanked
renderCleared(m, t, a) ==
    IF m.err # Nil THEN m
    ELSE renderWritten(
             renderProgressBar(
                 [m EXCEPT !.s.finished =
                      RenderFinished(@, m.s.currentNum, m.c.max, m.s.stopped)], t, a), t)

render(m, t, a) ==
    renderCleared(IF ~m.c.useANSICodes THEN clearProgressBar(m)
                  ELSE [m EXCEPT !.err = Nil], t, a)

\* an addRate that overwrites the first slot every time
addRateM(s, rate) ==
    IF Len(s.counterLastTenRates) < RateCap
    THEN [s EXCEPT !.counterLastTenRates = Append(@, rate)]
    ELSE [s EXCEPT !.counterLastTenRates[1] = rate]
addRate(s, rate) ==
    IF Len(s.counterLastTenRates) < RateCap
    THEN [s EXCEPT !.counterLastTenRates = Append(@, rate)]
    ELSE [s EXCEPT !.counterLastTenRates[s.counterLastRatesIdx + 1] = rate,
                   !.counterLastRatesIdx = IF @ + 1 = RateCap THEN 0 ELSE @ + 1]

\* a bookkeeping that forgets an accumulator that is not positive
TrackRateM(c, s, t) ==
    IF c.totalRate THEN s
    ELSE IF s.counterTime # ZeroTime
    THEN IF s.counterNumSinceLast > 0
         THEN IF (t - s.counterTime) * 1000 > 382 * TicksPerSecond
                 \/ Len(s.counterLastTenRates) = 0
              THEN [addRate(s, RatePerSecond(s.counterNumSinceLast, t - s.counterTime))
                        EXCEPT !.counterNumSinceLast = 0, !.counterTime = t]
              ELSE s
         ELSE [s EXCEPT !.counterNumSinceLast = 0, !.counterTime = t]
    ELSE IF s.counterNumSinceLast > 0
         THEN [addRate([s EXCEPT !.counterLastTenRates = <<>>],
                       RatePerSecond(s.counterNumSinceLast, t - s.startTime))
                  EXCEPT !.counterNumSinceLast = 0, !.counterTime = t]
         ELSE [s EXCEPT !.counterLastTenRates = <<>>, !.counterNumSinceLast = 0,
                        !.counterTime = t]
\* the rolling-rate bookkeeping of add, lines 1553-1575
TrackRate(c, s, t) ==
    IF c.totalRate THEN s
    ELSE IF s.counterTime # ZeroTime
    THEN IF s.counterNumSinceLast > 0
         THEN IF (t - s.counterTime) * 1000 > 382 * TicksPerSecond
                 \/ Len(s.counterLastTenRates) = 0
              THEN [addRate(s, RatePerSecond(s.counterNumSinceLast, t - s.counterTime))
                        EXCEPT !.counterNumSinceLast = 0, !.counterTime = t]
              ELSE s
         ELSE [s EXCEPT !.counterTime = t]
    ELSE IF s.counterNumSinceLast > 0
         THEN [addRate([s EXCEPT !.counterLastTenRates = <<>>],
                       RatePerSecond(s.counterNumSinceLast, t - s.startTime))
                  EXCEPT !.counterNumSinceLast = 0, !.counterTime = t]
         ELSE [s EXCEPT !.counterLastTenRates = <<>>, !.counterTime = t]

\* int(percent * scale) with percent := float64(currentNum) / float64(max):
\* a division by zero gives NaN or an infinity
PercentOf(currentNum, max, scale, a) ==
    IF max # 0 THEN ToInt(TruncDiv(currentNum * scale, max), a)
    ELSE IF currentNum = 0 \/ scale = 0 THEN NaNToInt(a)
    ELSE ToInt(Sign(currentNum) * Sign(scale) * 2 * IntMax, a)

\* the bound check of add
ExceedsMaxM(currentNum, max) == currentNum > max + 1
ExceedsMax(currentNum, max) == currentNum > max

\* a throttle that holds back the last step as well
ThrottledM(c, s, t) ==
    /\ c.throttleInterval > 0
    /\ t - s.lastShown < c.throttleInterval
\* the throttle of add
Throttled(c, s, t) ==
    /\ c.throttleInterval > 0
    /\ t - s.lastShown < c.throttleInterval
    /\ s.currentNum < c.max

\* add from the percentage on, lines 1577-1589
addPercent(m, pct, saucer, delta, t, a) ==
    IF (pct # m.s.lastPercent /\ pct > 0) \/ m.c.showIterationsPerSecond
       \/ m.c.showIterationsCount \/ delta = 0
    THEN render([m EXCEPT !.s.currentSaucerSize = saucer,
                          !.s.currentPercent = pct,
                          !.s.lastPercent = pct], t, a)
    ELSE [m EXCEPT !.s.currentSaucerSize = saucer,
                   !.s.currentPercent = pct,
                   !.s.lastPercent = pct]

\* add after the rate bookkeeping
addTracked(m, delta, t, a) ==
    addPercent(m, PercentOf(m.s.currentNum, m.c.max, 100, a),
               PercentOf(m.s.currentNum, m.c.max, m.c.width, a), delta, t, a)

\* add after the counters are updated, lines 1547-1575
addCounted(m, delta, t, a) ==
    IF Throttled(m.c, m.s, t) THEN m
    ELSE addTracked([m EXCEPT !.s = TrackRate(m.c, m.s, t)], delta, t, a)

\* add with a refusal that has already added the delta to the byte accumulator
addM(m, delta, t, a) ==
    IF m.c.ignoreLength /\ m.c.max = 0
    THEN [m EXCEPT !.s.currentNum = Wrap(@ + delta), !.err = Panic]
    ELSE IF ~m.c.ignoreLength /\ ExceedsMax(Wrap(m.s.currentNum + delta), m.c.max)
    THEN [m EXCEPT !.s.currentNum = Wrap(@ + delta),
                   !.s.currentBytes = @ + delta, !.err = ErrExceeds]
    ELSE addCounted(
             [m EXCEPT !.s.currentNum = IF m.c.ignoreLength
                                        THEN GoMod(Wrap(@ + delta), m.c.max)
                                        ELSE Wrap(@ + delta),
                       !.s.currentBytes = @ + delta,
                       !.s.counterNumSinceLast =
                           IF m.c.totalRate THEN @ ELSE Wrap(@ + delta),
                       !.err = Nil], delta, t, a)

add(m, delta, t, a) ==
    IF m.c.ignoreLength /\ m.c.max = 0
    THEN [m EXCEPT !.s.currentNum = Wrap(@ + delta), !.err = Panic]
    ELSE IF ~m.c.ignoreLength /\ ExceedsMax(Wrap(m.s.currentNum + delta), m.c.max)
    THEN [m EXCEPT !.s.currentNum = Wrap(@ + delta), !.err = ErrExceeds]
    ELSE addCounted(
             [m EXCEPT !.s.currentNum = IF m.c.ignoreLength
                                        THEN GoMod(Wrap(@ + delta), m.c.max)
                                        ELSE Wrap(@ + delta),
                       !.s.currentBytes = @ + delta,
                       !.s.counterNumSinceLast =
                           IF m.c.totalRate THEN @ ELSE Wrap(@ + delta),
                       !.err = Nil], delta, t, a)

\* the state a Reset leaves: every field zero but the start time
ZeroState(t) ==
    [currentNum |-> 0, currentPercent |-> 0, lastPercent |-> 0,
     currentSaucerSize |-> 0, lastShown |-> ZeroTime, startTime |-> t,
     counterTime |-> ZeroTime, counterNumSinceLast |-> 0,
     counterLastTenRates |-> <<>>, counterLastRatesIdx |-> 0,
     maxLineWidth |-> 0, currentBytes |-> 0,
     finished |-> FALSE, stopped |-> FALSE, rendered |-> NoText]

\* New64: the options applied to the defaults, then the first render
New64(max, o, t, a) ==
    LET c == [variant |-> "B",
              max |-> IF max = -1 THEN o.width ELSE max,
              width |-> o.width,
              writer |-> o.writer,
              description |-> "",
              ignoreLength |-> (max = -1),
              showIterationsPerSecond |-> o.showIterationsPerSecond,
              showIterationsCount |-> o.showIterationsCount,
              totalRate |-> o.totalRate,
              elapsedTime |-> o.elapsedTime,
              predictTime |-> (max # -1 /\ o.predictTime),
              throttleInterval |-> o.throttleInterval,
              clearOnFinish |-> o.clearOnFinish,
              visible |-> o.visible,
              useANSICodes |-> o.useANSICodes]
    IN  render([c |-> c, s |-> ZeroState(t), out |-> <<>>, err |-> Nil], t, a)

\* a Reset that keeps the widest line seen
ResetM(m, t) ==
    [m EXCEPT !.s = [ZeroState(t) EXCEPT !.maxLineWidth = m.s.maxLineWidth], !.err = Nil]
Reset(m, t) == [m EXCEPT !.s = ZeroState(t), !.err = Nil]

\* the end of Finish and of Stop: blank the line or start a new one
finishLine(m) ==
    IF m.err # Nil THEN m
    ELSE IF m.c.clearOnFinish THEN clearProgressBar(m)
    ELSE writeString(m, [k |-> "nl"])

Finish(m, t, a) ==
    finishLine(
        IF m.s.finished THEN [m EXCEPT !.err = Nil]
        ELSE IF m.c.clearOnFinish
        THEN [m EXCEPT !.s.currentNum = IF @ < m.c.max THEN m.c.max ELSE @,
                       !.s.finished = TRUE,
                       !.err = Nil]
        ELSE add([m EXCEPT !.s.currentNum = IF @ < m.c.max THEN m.c.max ELSE @,
                           !.s.finished = TRUE,
                           !.s.lastShown = ZeroTime,
                           !.err = Nil], 0, t, a))

Stop(m, t, a) ==
    finishLine(
        IF m.s.finished THEN [m EXCEPT !.err = Nil]
        ELSE IF m.c.clearOnFinish
        THEN [m EXCEPT !.s.stopped = TRUE, !.s.finished = TRUE, !.err = Nil]
        ELSE add([m EXCEPT !.s.stopped = TRUE,
                           !.s.lastShown = ZeroTime,
                           !.err = Nil], 0, t, a))

\* Set and Set64: the delta is taken from the byte accumulator
Set(m, value, t, a) == add(m, Wrap(value - ToInt(m.s.currentBytes, a)), t, a)

setMax(m, max, t, a) ==
    IF m.c.max < 0 THEN [m EXCEPT !.err = ErrNonneg]
    ELSE add([m EXCEPT !.c.max = max], 0, t, a)

AddMax(m, delta, t, a) == setMax(m, Wrap(m.c.max + delta), t, a)

\* SetDescription returns nothing: the error of render is dropped
SetDescription(m, d, t, a) ==
    [render([m EXCEPT !.c.description = d], t, a) EXCEPT !.err = Nil]

Clear(m) == clearProgressBar(m)

(***************************************************************************)
(* The calls a program makes on one bar, one after the other.              *)
(***************************************************************************)
Procs == 1..MaxProcs
Deltas == ((-1)..MaxDelta) \cup {IntMax}
SetValues == {1, MaxDelta + 1}
SetMaxArgs == {-2, 1, MaxDelta + 2}
AddMaxArgs == {-4, 1}
Descriptions == {"ab"}
Throttle == 2

Machine == [c |-> config, s |-> state, out |-> <<>>, err |-> Nil]

Op(name, arg) ==
    [name |-> name, arg |-> arg, preNum |-> state.currentNum,
     preFinished |-> state.finished, preMax |-> config.max]

\* the frames among the strings o written to the writer
Frames(o) == {i \in 1..Len(o) : o[i].k = "frame"}

\* the widest of the frames of o, not below w
Widest(o, w) ==
    IF \E i \in Frames(o) : TextLen(o[i].f) > w
    THEN CHOOSE n \in {TextLen(o[i].f) : i \in Frames(o)} :
             \A i \in Frames(o) : TextLen(o[i].f) <= n
    ELSE w

\* what the observer has seen before the first call
NoHist ==
    [sum |-> 0, window |-> <<>>, samples |-> 0, shown |-> ZeroTime, widest |-> 0,
     completions |-> 0, read |-> 0, eof |-> FALSE, twin |-> <<>>, flushed |-> 0]

\* the observer after a call that wrote o at time t: when the last frame
\* reached the writer, and the widest frame since the bar was made or reset
Observed(h, c, o, name, t) ==
    [h EXCEPT !.shown = IF Frames(o) # {} THEN t ELSE @,
              !.widest = IF name = "Reset" \/ c.variant # "B" THEN 0 ELSE Widest(o, @),
              !.completions = IF name = "Reset" THEN 0
                              ELSE @ + Cardinality({i \in 1..Len(o) : o[i] = Completed})]

\* a public call returns the machine m and leaves the observer with h; after
\* a panic the program is gone
Returned(m, name, arg, h, bound) ==
    /\ calls < bound
    /\ ret # Panic
    /\ config' = m.c
    /\ state' = m.s
    /\ out' = m.out
    /\ ret' = m.err
    /\ calls' = calls + 1
    /\ lastOp' = Op(name, arg)
    /\ hist' = h
    /\ UNCHANGED <<now, mu, pc, tmp, arch>>

Returns(m, name, arg) ==
    Returned(m, name, arg, Observed(hist, m.c, m.out, name, now), MaxCalls)

Sequential == config.variant = "B" /\ \A g \in Procs : pc[g] = "idle"

DoAdd ==
    /\ Sequential
    /\ \E delta \in Deltas : Returns(add(Machine, delta, now, arch), "Add", delta)

DoSet ==
    /\ Sequential
    /\ \E value \in SetValues : Returns(Set(Machine, value, now, arch), "Set", value)

DoSetMax ==
    /\ Sequential
    /\ \E max \in SetMaxArgs : Returns(setMax(Machine, max, now, arch), "SetMax", max)

DoAddMax ==
    /\ Sequential
    /\ \E delta \in AddMaxArgs :
         Returns(AddMax(Machine, delta, now, arch), "AddMax", delta)

DoFinish ==
    /\ Sequential
    /\ Returns(Finish(Machine, now, arch), "Finish", 0)

DoStop ==
    /\ Sequential
    /\ Returns(Stop(Machine, now, arch), "Stop", 0)

DoReset ==
    /\ Sequential
    /\ Returns(Reset(Machine, now), "Reset", 0)

DoSetDescription ==
    /\ Sequential
    /\ \E d \in Descriptions :
         Returns(SetDescription(Machine, d, now, arch), "SetDescription", Len(d))

DoClear ==
    /\ Sequential
    /\ Returns(Clear(Machine), "Clear", 0)

\* time passes between two calls
Tick ==
    /\ now < MaxClock
    /\ now' = now + 1
    /\ UNCHANGED <<config, state, out, calls, lastOp, ret, mu, pc, tmp, arch, hist>>

\* the options the bars of the model are built with
OptPlain ==
    [width |-> 2, writer |-> "buffer", showIterationsPerSecond |-> FALSE,
     showIterationsCount |-> FALSE, totalRate |-> FALSE, elapsedTime |-> FALSE,
     predictTime |-> FALSE, throttleInterval |-> 0, clearOnFinish |-> FALSE,
     visible |-> TRUE, useANSICodes |-> FALSE]
OptCount == [OptPlain EXCEPT !.showIterationsCount = TRUE, !.throttleInterval = Throttle]
OptIts == [OptPlain EXCEPT !.showIterationsPerSecond = TRUE, !.elapsedTime = TRUE]
OptPredict == [OptPlain EXCEPT !.predictTime = TRUE, !.totalRate = TRUE,
                               !.throttleInterval = Throttle]
OptANSI == [OptPlain EXCEPT !.useANSICodes = TRUE, !.clearOnFinish = TRUE]
OptHidden == [OptPlain EXCEPT !.visible = FALSE]
OptClear == [OptPlain EXCEPT !.clearOnFinish = TRUE, !.throttleInterval = Throttle]
OptThrottle == [OptPlain EXCEPT !.throttleInterval = Throttle]
OptNoWidth == [OptPlain EXCEPT !.width = 0]

Options ==
    {OptPlain, OptCount, OptIts, OptPredict, OptANSI, OptHidden, OptClear, OptThrottle}

\* the bars of the model: the max handed to New64 and the options
Bars ==
    ({MaxDelta + 1} \X Options)
        \cup ({-1} \X {OptPlain, OptCount, OptIts, OptClear, OptNoWidth})
        \cup ({0, -2} \X {OptPlain, OptCount})

NoOp == [name |-> "New64", arg |-> 0, preNum |-> 0, preFinished |-> FALSE, preMax |-> 0]

\* the builds told apart: they differ where a conversion meets a NaN, which
\* takes a max of 0, or a value above every int64, which takes a large max
Builds(max) == IF max = 0 \/ max = IntMax THEN Archs ELSE {"amd64"}

\* the bar New64 returns, at time 0
InitWith(bars, pc0) ==
    /\ now = 0
    /\ \E b \in bars :
         /\ arch \in Builds(b[1])
         /\ LET m == New64(b[1], b[2], 0, arch)
            IN  /\ config = m.c /\ state = m.s /\ out = m.out
                /\ hist = Observed(NoHist, m.c, m.out, "New64", 0)
    /\ calls = 0
    /\ lastOp = NoOp
    /\ ret = Nil
    /\ mu = 0
    /\ pc = [g \in Procs |-> pc0]
    /\ tmp = [g \in Procs |-> 0]

Init == InitWith(Bars, "idle")

Next ==
    \/ DoAdd
    \/ DoSet
    \/ DoSetMax
    \/ DoAddMax
    \/ DoFinish
    \/ DoStop
    \/ DoReset
    \/ DoSetDescription
    \/ DoClear
    \/ Tick

Spec == Init /\ [][Next]_vars

(***************************************************************************)
(* Bars made with OptionVisible(false), some on a writer whose every Write *)
(* fails, and the calls a program makes on them.                           *)
(***************************************************************************)
OptHiddenBroken == [OptHidden EXCEPT !.writer = "broken"]
OptHiddenIts == [OptIts EXCEPT !.visible = FALSE, !.writer = "broken"]
OptHiddenClear == [OptClear EXCEPT !.visible = FALSE, !.writer = "broken"]
OptHiddenANSI == [OptANSI EXCEPT !.visible = FALSE]

HiddenBars ==
    ({MaxDelta + 1} \X {OptHidden, OptHiddenBroken, OptHiddenIts, OptHiddenClear,
                        OptHiddenANSI})
        \cup ({-1} \X {OptHiddenBroken, OptHiddenClear})

InitHidden == InitWith(HiddenBars, "idle")

SpecHidden == InitHidden /\ [][Next]_vars

(***************************************************************************)
(* A Reader around a bar of variant B: the program reads a source through  *)
(* it until the source reports io.EOF, then closes it.  The observer adds  *)
(* up the byte counts Read returned.                                       *)
(***************************************************************************)
ErrEOF == "EOF"

\* Reader.Read when the underlying Read returned n bytes, and io.EOF if eof
ReaderRead(m, n, eof, t, a) ==
    IF eof THEN [m EXCEPT !.err = ErrEOF]
    ELSE [add(m, n, t, a) EXCEPT !.err = Nil]

\* Reader.Close on a source that is no io.Closer, or whose Close succeeds
ReaderClose(m, t, a) == Finish(m, t, a)

DoRead ==
    /\ Sequential
    /\ ~hist.eof
    /\ \E n \in 0..MaxDelta, eof \in BOOLEAN :
         LET m == ReaderRead(Machine, n, eof, now, arch)
         IN  Returned(m, "Read", n,
                      [Observed(hist, m.c, m.out, "Read", now)
                           EXCEPT !.read = @ + n, !.eof = eof], MaxCalls)

DoClose ==
    /\ Sequential
    /\ hist.eof
    /\ Returns(ReaderClose(Machine, now, arch), "Close", 0)

ReadBars == {IntMax} \X {OptPlain, OptCount, OptIts, OptThrottle, OptHidden}

InitRead == InitWith(ReadBars, "idle")

NextRead == DoRead \/ DoClose \/ Tick

SpecRead == InitRead /\ [][NextRead]_vars

(***************************************************************************)
(* A determinate bar driven by nothing but Adds of a positive delta.       *)
(***************************************************************************)
DoAddUp ==
    /\ Sequential
    /\ \E delta \in {d \in Deltas : d > 0} :
         Returns(add(Machine, delta, now, arch), "Add", delta)

InitAdds == InitWith({MaxDelta + 1} \X Options, "idle")

NextAdds == DoAddUp \/ Tick

SpecAdds == InitAdds /\ [][NextAdds]_vars

(***************************************************************************)
(* A new bar, determinate or a spinner, driven by nothing but Adds of any  *)
(* delta; the observer adds up the deltas handed in.                       *)
(***************************************************************************)
\* Add(delta) returns the machine m
Summed(m, delta) ==
    Returned(m, "Add", delta,
             [Observed(hist, m.c, m.out, "Add", now) EXCEPT !.sum = @ + delta], MaxCalls)

DoAddSum ==
    /\ Sequential
    /\ \E delta \in Deltas : Summed(add(Machine, delta, now, arch), delta)

SumBars ==
    ({MaxDelta + 1} \X Options) \cup ({-1} \X {OptPlain, OptCount, OptIts, OptClear})

InitSum == InitWith(SumBars, "idle")

NextSum == DoAddSum \/ Tick

SpecSum == InitSum /\ [][NextSum]_vars

(***************************************************************************)
(* Bars that display the remaining time, small ones and one as large as an *)
(* int64 allows, with every call of the program.                           *)
(***************************************************************************)
OptPredictRolling == [OptPlain EXCEPT !.predictTime = TRUE]

EtaBars == {MaxDelta + 1, IntMax} \X {OptPredict, OptPredictRolling}

InitEta == InitWith(EtaBars, "idle")

SpecEta == InitEta /\ [][Next]_vars

(***************************************************************************)
(* Bars with the rolling rate, small and large ones and a spinner, with    *)
(* and without a throttle, driven by Adds of any delta and by Resets.  The *)
(* observer adds up the deltas of the Adds that returned nil (hist.sum)    *)
(* and what the accumulator held each time a sample was stored             *)
(* (hist.flushed).                                                         *)
(***************************************************************************)
MaxAcctCalls == 4

\* the observer after an Add of delta took the state from s to s2 and
\* returned err: a sample was stored when the buffer or its index changed
Accounted(h, s, s2, delta, err) ==
    [h EXCEPT !.sum = IF err = Nil THEN @ + delta ELSE @,
              !.flushed =
                  IF err = Nil
                     /\ (s2.counterLastTenRates # s.counterLastTenRates
                           \/ s2.counterLastRatesIdx # s.counterLastRatesIdx)
                  THEN @ + Wrap(s.counterNumSinceLast + delta)
                  ELSE @]

DoAddAcct ==
    /\ Sequential
    /\ \E delta \in Deltas :
         LET m == add(Machine, delta, now, arch)
         IN  Returned(m, "Add", delta,
                      Accounted(Observed(hist, m.c, m.out, "Add", now), state, m.s,
                                delta, m.err),
                      MaxAcctCalls)

DoResetAcct ==
    /\ Sequential
    /\ LET m == Reset(Machine, now)
       IN  Returned(m, "Reset", 0,
                    [Observed(hist, m.c, m.out, "Reset", now)
                        EXCEPT !.sum = 0, !.flushed = 0],
                    MaxAcctCalls)

AcctBars == {MaxDelta + 1, IntMax, -1} \X {OptPlain, OptIts, OptThrottle, OptCount}

InitAcct == InitWith(AcctBars, "idle")

NextAcct == DoAddAcct \/ DoResetAcct \/ Tick

SpecAcct == InitAcct /\ [][NextAcct]_vars

(***************************************************************************)
(* Spinners that display the count, driven by Adds of any delta, Finish,   *)
(* Stop and SetDescription; the observer adds up the deltas handed in.     *)
(***************************************************************************)
OptCountIts ==
    [OptPlain EXCEPT !.showIterationsCount = TRUE, !.showIterationsPerSecond = TRUE,
                     !.elapsedTime = TRUE]

SpinBars == {-1} \X {OptCount, OptCountIts, [OptClear EXCEPT !.showIterationsCount = TRUE]}

InitSpin == InitWith(SpinBars, "idle")

NextSpin == DoAddSum \/ DoFinish \/ DoStop \/ DoSetDescription \/ Tick

SpecSpin == InitSpin /\ [][NextSpin]_vars

(***************************************************************************)
(* Goroutines that each call Add(1) on one bar at the same time.  Add      *)
(* takes the mutex, add reads the counter and writes it back with the rest *)
(* of its work, and the deferred Unlock gives the mutex back.              *)
(***************************************************************************)
\* a Lock that never waits
LockFreeM(m) == TRUE
\* sync.Mutex: Lock returns once no goroutine holds the mutex
LockFree(m) == m = 0

Lock(g) ==
    /\ pc[g] = "start"
    /\ LockFree(mu)
    /\ mu' = g
    /\ pc' = [pc EXCEPT ![g] = "locked"]
    /\ UNCHANGED <<config, state, out, now, calls, lastOp, ret, tmp, arch, hist>>

\* the read of p.state.currentNum += delta
Load(g) ==
    /\ pc[g] = "locked"
    /\ tmp' = [tmp EXCEPT ![g] = state.currentNum]
    /\ pc' = [pc EXCEPT ![g] = "loaded"]
    /\ UNCHANGED <<config, state, out, now, calls, lastOp, ret, mu, arch, hist>>

\* goroutine g is left with the machine m when add returns
Stores(g, m) ==
    /\ config' = m.c
    /\ state' = m.s
    /\ out' = m.out
    /\ ret' = m.err
    /\ calls' = calls + 1
    /\ lastOp' = Op("Add", 1)
    /\ hist' = Observed(hist, m.c, m.out, "Add", now)
    /\ pc' = [pc EXCEPT ![g] = "stored"]
    /\ UNCHANGED <<now, mu, tmp, arch>>

\* the write of p.state.currentNum += delta and the rest of add
Store(g) ==
    /\ pc[g] = "loaded"
    /\ Stores(g, add([Machine EXCEPT !.s.currentNum = tmp[g]], 1, now, arch))

Unlock(g) ==
    /\ pc[g] = "stored"
    /\ mu' = 0
    /\ pc' = [pc EXCEPT ![g] = "done"]
    /\ UNCHANGED <<config, state, out, now, calls, lastOp, ret, tmp, arch, hist>>

\* bars with room for one Add of every goroutine
ConcBars == {MaxProcs, MaxProcs + 1} \X {OptPlain, OptCount, OptThrottle, OptHidden}

InitConc == InitWith(ConcBars, "start")

NextConc ==
    \/ \E g \in Procs : Lock(g)
    \/ \E g \in Procs : Load(g)
    \/ \E g \in Procs : Store(g)
    \/ \E g \in Procs : Unlock(g)
    \/ Tick

SpecConc == InitConc /\ [][NextConc]_vars

(***************************************************************************)
(* Variant A: the version of lines 1-1075, built by NewOptions64.          *)
(***************************************************************************)
ErrMaxPositive == "max must be greater than 0"

\* rune count of a frame of variant A without its "\r"
A_TextLen(f) ==
    IF f.k = "empty" THEN 0
    ELSE IF f.k = "bar"
    THEN Len(f.desc) + (IF IntLen(f.pct) > 4 THEN IntLen(f.pct) ELSE 4) + 2
         + 1 + f.fill + f.pad + 1
         + 1 + ClusterLen(f.cluster) + BracLen(f.brac) + 1
    ELSE (IF f.k = "spin" THEN 2 ELSE 5)
         + (IF f.desc # "" THEN 1 + Len(f.desc) ELSE 0)
         + (IF f.cluster # <<>> THEN 1 + ClusterLen(f.cluster) ELSE 0)
         + BracLen(f.brac) + 1

A_getStringWidth(c, w) == IF w.k = "frame" THEN A_TextLen(w.f) ELSE 0

A_writeString(m, str) ==
    IF m.c.writer = "broken" THEN [m EXCEPT !.out = Append(@, Failed), !.err = ErrWrite]
    ELSE [m EXCEPT !.out = Append(@, str), !.err = Nil]

A_clearProgressBar(m) ==
    IF m.s.maxLineWidth = 0 THEN [m EXCEPT !.err = Nil]
    ELSE IF m.c.useANSICodes THEN A_writeString(m, [k |-> "ansiclear"])
    ELSE A_writeString(m, [k |-> "blank", n |-> m.s.maxLineWidth])

\* the parts of the parenthesized cluster
A_Cluster(c, s, rate) ==
    LET count ==
            IF ~c.showIterationsCount THEN <<>>
            ELSE IF ~c.ignoreLength
            THEN <<[p |-> "count", cur |-> s.currentBytes, of |-> <<c.max>>]>>
            ELSE IF ~s.finished
            THEN <<[p |-> "count", cur |-> s.currentBytes, of |-> <<>>]>>
            ELSE <<[p |-> "count", cur |-> s.currentBytes, of |-> <<s.currentBytes>>]>>
        its ==
            IF ~c.showIterationsPerSecond THEN <<>>
            ELSE IF IsInf(rate)
            THEN <<ItsPart(0, FALSE, TRUE, "s")>>
            ELSE IF FracGt(rate, 1, 1)
            THEN <<ItsPart(RoundEven(rate.n, rate.d), rate.n < 0, FALSE, "s")>>
            ELSE IF FracGt(Frac(60 * rate.n, rate.d), 1, 1)
            THEN <<ItsPart(RoundEven(60 * rate.n, rate.d), rate.n < 0, FALSE, "min")>>
            ELSE <<ItsPart(RoundEven(3600 * rate.n, rate.d), rate.n < 0, FALSE, "h")>>
    IN  count \o its

\* rightBrac: (1/rate)*(max - currentNum) in whole seconds, not below zero;
\* a rate of zero gives an infinity or a NaN, which ends as 0s on every build
A_RightBrac(c, s, rate) ==
    IF ~c.predictTime THEN <<>>
    ELSE IF IsInf(rate) \/ rate.n = 0 THEN <<0>>
    ELSE <<RepeatCount(TruncDiv((c.max - s.currentNum) * rate.d, rate.n))>>

\* leftBrac: the elapsed time cut to whole seconds
A_LeftBrac(c, s, t) ==
    IF c.predictTime \/ c.elapsedTime
    THEN <<TruncDiv(t - s.startTime, TicksPerSecond)>>
    ELSE <<>>

A_FrameText(c, s, cluster, left, right, t) ==
    IF c.ignoreLength
    THEN [k |-> IF ~s.finished THEN "spin" ELSE "done",
          glyph |-> IF ~s.finished
                    THEN ((10 * (t - s.startTime)) \div TicksPerSecond) % SpinnerLen
                    ELSE 0,
          desc |-> c.description, cluster |-> cluster,
          brac |-> IF c.elapsedTime THEN left ELSE <<>>]
    ELSE [k |-> "bar", desc |-> c.description, pct |-> s.currentPercent,
          fill |-> RepeatCount(s.currentSaucerSize),
          pad |-> RepeatCount(Wrap(c.width - s.currentSaucerSize)),
          cluster |-> cluster,
          brac |-> IF right = <<>> \/ s.finished
                   THEN (IF c.elapsedTime \/ c.predictTime THEN left ELSE <<>>)
                   ELSE left \o right]

A_Frame(c, s, t) ==
    A_FrameText(c, s, A_Cluster(c, s, DisplayRate(c, s, t)), A_LeftBrac(c, s, t),
                A_RightBrac(c, s, DisplayRate(c, s, t)), t)

A_writeFrame(m, f) ==
    [m |-> A_writeString([m EXCEPT !.s.rendered = f],
                         [k |-> "frame", f |-> f, ansi |-> FALSE]),
     w |-> A_getStringWidth(m.c, [k |-> "frame", f |-> f, ansi |-> FALSE])]

A_renderProgressBar(m, t) == A_writeFrame(m, A_Frame(m.c, m.s, t))

\* the end of render on a finished bar
A_renderFinished(m) ==
    IF m.c.useANSICodes /\ m.c.clearOnFinish THEN A_clearProgressBar(m)
    ELSE [m EXCEPT !.err = Nil]

\* the end of render on a running bar
A_renderWritten(r, t) ==
    IF r.m.err # Nil THEN r.m
    ELSE [r.m EXCEPT !.s.maxLineWidth = IF r.w > @ THEN r.w ELSE @,
                     !.s.lastShown = t]

\* the callback of OptionOnCompletion, if one was given
A_onCompletion(m) ==
    IF m.c.onCompletion THEN [m EXCEPT !.out = Append(@, Completed)] ELSE m

\* a render that calls back whenever it finds the bar finished
A_renderClearedM(m, t) ==
    IF m.err # Nil THEN m
    ELSE IF ~m.s.finished /\ (m.s.currentNum >= m.c.max \/ m.s.stopped)
    THEN A_renderFinished(
             A_onCompletion(
                 IF ~m.c.clearOnFinish
                 THEN A_renderProgressBar([m EXCEPT !.s.finished = TRUE], t).m
                 ELSE [m EXCEPT !.s.finished = TRUE]))
    ELSE IF m.s.finished THEN A_renderFinished(A_onCompletion(m))
    ELSE A_renderWritten(A_renderProgressBar(m, t), t)
\* render after the old line was blanked
A_renderCleared(m, t) ==
    IF m.err # Nil THEN m
    ELSE IF ~m.s.finished /\ (m.s.currentNum >= m.c.max \/ m.s.stopped)
    THEN A_renderFinished(
             A_onCompletion(
                 IF ~m.c.clearOnFinish
                 THEN A_renderProgressBar([m EXCEPT !.s.finished = TRUE], t).m
                 ELSE [m EXCEPT !.s.finished = TRUE]))
    ELSE IF m.s.finished THEN A_renderFinished(m)
    ELSE A_renderWritten(A_renderProgressBar(m, t), t)

A_render(m, t) ==
    IF t - m.s.lastShown < m.c.throttleDuration /\ m.s.currentNum < m.c.max
    THEN [m EXCEPT !.err = Nil]
    ELSE A_renderCleared(IF ~m.c.useANSICodes THEN A_clearProgressBar(m)
                         ELSE [m EXCEPT !.err = Nil], t)

\* rate samples that are never dropped
A_TrackRateM(c, s, t) ==
    IF ~c.totalRate /\ (t - s.counterTime) * 1000 > 500 * TicksPerSecond
    THEN [s EXCEPT !.counterLastTenRates =
                       Append(@, RatePerSecond(s.counterNumSinceLast, t - s.counterTime)),
                   !.counterTime = t,
                   !.counterNumSinceLast = 0]
    ELSE s
\* the rate samples of add: one more about every half second, the last ten kept
A_TrackRate(c, s, t) ==
    IF ~c.totalRate /\ (t - s.counterTime) * 1000 > 500 * TicksPerSecond
    THEN [s EXCEPT !.counterLastTenRates =
                       IF Len(@) + 1 > RateCap
                       THEN Tail(Append(@, RatePerSecond(s.counterNumSinceLast,
                                                         t - s.counterTime)))
                       ELSE Append(@, RatePerSecond(s.counterNumSinceLast,
                                                    t - s.counterTime)),
                   !.counterTime = t,
                   !.counterNumSinceLast = 0]
    ELSE s

\* add from the percentage on
A_addPercent(m, pct, saucer, delta, t) ==
    IF m.s.currentNum > m.c.max
    THEN [m EXCEPT !.s.currentSaucerSize = saucer,
                   !.s.currentPercent = pct,
                   !.s.lastPercent = pct,
                   !.err = ErrExceeds]
    ELSE IF (pct # m.s.lastPercent /\ pct > 0) \/ m.c.showIterationsPerSecond
            \/ m.c.showIterationsCount \/ delta = 0
    THEN A_render([m EXCEPT !.s.currentSaucerSize = saucer,
                            !.s.currentPercent = pct,
                            !.s.lastPercent = pct], t)
    ELSE [m EXCEPT !.s.currentSaucerSize = saucer,
                   !.s.currentPercent = pct,
                   !.s.lastPercent = pct]

A_addTracked(m, delta, t, a) ==
    A_addPercent(m, PercentOf(m.s.currentNum, m.c.max, 100, a),
                 PercentOf(m.s.currentNum, m.c.max, m.c.width, a), delta, t)

\* the counter moves only while it is below the maximum
A_add(m, delta, t, a) ==
    IF m.c.invisible THEN [m EXCEPT !.err = Nil]
    ELSE IF m.c.max <= 0 THEN [m EXCEPT !.err = ErrMaxPositive]
    ELSE A_addTracked(
             [m EXCEPT !.s = A_TrackRate(m.c,
                 [m.s EXCEPT !.currentNum =
                                 IF @ >= m.c.max THEN @
                                 ELSE IF m.c.ignoreLength
                                 THEN GoMod(Wrap(@ + delta), m.c.max)
                                 ELSE Wrap(@ + delta),
                             !.currentBytes = @ + delta,
                             !.counterNumSinceLast =
                                 IF m.c.totalRate THEN @ ELSE Wrap(@ + delta)], t),
                       !.err = Nil], delta, t, a)

A_getBasicState(t) ==
    [currentNum |-> 0, currentPercent |-> 0, lastPercent |-> 0,
     currentSaucerSize |-> 0, lastShown |-> ZeroTime, startTime |-> t,
     counterTime |-> t, counterNumSinceLast |-> 0,
     counterLastTenRates |-> <<>>,
     maxLineWidth |-> 0, currentBytes |-> 0,
     finished |-> FALSE, stopped |-> FALSE, rendered |-> NoText]

A_RenderBlank(m, t) ==
    IF m.c.invisible THEN [m EXCEPT !.err = Nil]
    ELSE A_render([m EXCEPT !.s.lastShown = ZeroTime], t)

\* the part of NewOptions64 that follows the options
A_construct(m, t) ==
    IF m.c.renderWithBlankState THEN [A_RenderBlank(m, t) EXCEPT !.err = Nil]
    ELSE [m EXCEPT !.s.lastShown = m.s.startTime]

NewOptions64(max, o, t) ==
    A_construct(
        [c |-> [variant |-> "A",
                max |-> IF max = -1 THEN o.width ELSE max,
                width |-> o.width,
                writer |-> o.writer,
                description |-> "",
                ignoreLength |-> (max = -1),
                showIterationsPerSecond |-> o.showIterationsPerSecond,
                showIterationsCount |-> o.showIterationsCount,
                totalRate |-> o.totalRate,
                elapsedTime |-> o.elapsedTime,
                predictTime |-> (max # -1 /\ o.predictTime),
                throttleDuration |-> o.throttleDuration,
                clearOnFinish |-> o.clearOnFinish,
                invisible |-> o.invisible,
                useANSICodes |-> o.useANSICodes,
                renderWithBlankState |-> o.renderWithBlankState,
                onCompletion |-> o.onCompletion],
         s |-> A_getBasicState(t), out |-> <<>>, err |-> Nil], t)

A_Reset(m, t) == [m EXCEPT !.s = A_getBasicState(t), !.err = Nil]

A_Finish(m, t, a) ==
    A_add([m EXCEPT !.s.currentNum = m.c.max, !.s.lastShown = ZeroTime], 0, t, a)

A_Stop(m, t, a) ==
    A_add([m EXCEPT !.s.stopped = TRUE, !.s.lastShown = ZeroTime], 0, t, a)

A_Set(m, value, t, a) == A_add(m, Wrap(value - ToInt(m.s.currentBytes, a)), t, a)

A_setMax(m, max, t, a) == A_add([m EXCEPT !.c.max = max], 0, t, a)

A_SetDescription(m, d, t) ==
    IF m.c.invisible THEN [m EXCEPT !.c.description = d, !.err = Nil]
    ELSE [A_render([m EXCEPT !.c.description = d, !.s.lastShown = ZeroTime], t)
              EXCEPT !.err = Nil]

A_Clear(m) == A_clearProgressBar(m)

A_IsFinished == state.finished

\* String returns the text of the last frame composed
A_String == state.rendered

(***************************************************************************)
(* The calls a program makes on one bar of variant A.                      *)
(***************************************************************************)
A_Sequential == config.variant = "A" /\ \A g \in Procs : pc[g] = "idle"

A_DoAdd ==
    /\ A_Sequential
    /\ \E delta \in Deltas : Returns(A_add(Machine, delta, now, arch), "Add", delta)

A_DoSet ==
    /\ A_Sequential
    /\ \E value \in SetValues : Returns(A_Set(Machine, value, now, arch), "Set", value)

A_DoSetMax ==
    /\ A_Sequential
    /\ \E max \in SetMaxArgs : Returns(A_setMax(Machine, max, now, arch), "SetMax", max)

A_DoFinish ==
    /\ A_Sequential
    /\ Returns(A_Finish(Machine, now, arch), "Finish", 0)

A_DoStop ==
    /\ A_Sequential
    /\ Returns(A_Stop(Machine, now, arch), "Stop", 0)

A_DoReset ==
    /\ A_Sequential
    /\ Returns(A_Reset(Machine, now), "Reset", 0)

A_DoSetDescription ==
    /\ A_Sequential
    /\ \E d \in Descriptions :
         Returns(A_SetDescription(Machine, d, now), "SetDescription", Len(d))

A_DoClear ==
    /\ A_Sequential
    /\ Returns(A_Clear(Machine), "Clear", 0)

A_DoRenderBlank ==
    /\ A_Sequential
    /\ Returns(A_RenderBlank(Machine, now), "RenderBlank", 0)

\* the options the bars of variant A are built with; the first is the default
A_OptPlain ==
    [width |-> 2, writer |-> "buffer", showIterationsPerSecond |-> FALSE,
     showIterationsCount |-> FALSE, totalRate |-> FALSE, elapsedTime |-> TRUE,
     predictTime |-> TRUE, throttleDuration |-> 0, clearOnFinish |-> FALSE,
     invisible |-> FALSE, useANSICodes |-> FALSE, renderWithBlankState |-> FALSE,
     onCompletion |-> FALSE]
A_OptBare == [A_OptPlain EXCEPT !.elapsedTime = FALSE, !.predictTime = FALSE]
A_OptCount == [A_OptBare EXCEPT !.showIterationsCount = TRUE,
                                !.throttleDuration = Throttle]
A_OptIts == [A_OptPlain EXCEPT !.showIterationsPerSecond = TRUE, !.predictTime = FALSE]
A_OptBlank == [A_OptBare EXCEPT !.renderWithBlankState = TRUE,
                                !.throttleDuration = Throttle]
A_OptANSI == [A_OptBare EXCEPT !.useANSICodes = TRUE, !.clearOnFinish = TRUE]
A_OptHidden == [A_OptBare EXCEPT !.invisible = TRUE]
A_OptClear == [A_OptBare EXCEPT !.clearOnFinish = TRUE, !.renderWithBlankState = TRUE]

A_Options ==
    {A_OptPlain, A_OptBare, A_OptCount, A_OptIts, A_OptBlank, A_OptANSI,
     A_OptHidden, A_OptClear}

A_Bars ==
    ({MaxDelta + 1} \X A_Options)
        \cup ({-1} \X {A_OptBare, A_OptCount, A_OptBlank})
        \cup ({0} \X {A_OptBare})

\* the bar NewOptions64 returns, at time 0
InitA ==
    /\ now = 0
    /\ \E b \in A_Bars :
         /\ arch \in Builds(b[1])
         /\ LET m == NewOptions64(b[1], b[2], 0)
            IN  /\ config = m.c /\ state = m.s /\ out = m.out
                /\ hist = Observed(NoHist, m.c, m.out, "NewOptions64", 0)
    /\ calls = 0
    /\ lastOp = [NoOp EXCEPT !.name = "NewOptions64"]
    /\ ret = Nil
    /\ mu = 0
    /\ pc = [g \in Procs |-> "idle"]
    /\ tmp = [g \in Procs |-> 0]

NextA ==
    \/ A_DoAdd
    \/ A_DoSet
    \/ A_DoSetMax
    \/ A_DoFinish
    \/ A_DoStop
    \/ A_DoReset
    \/ A_DoSetDescription
    \/ A_DoClear
    \/ A_DoRenderBlank
    \/ Tick

SpecA == InitA /\ [][NextA]_vars

(***************************************************************************)
(* Two bars of variant A built with the same options but for the           *)
(* visibility, and handed the same calls at the same times: the invisible  *)
(* one is the bar of the state, the visible one its twin hist.twin.        *)
(***************************************************************************)
A_TwinMachine == [c |-> hist.twin.c, s |-> hist.twin.s, out |-> <<>>, err |-> Nil]

\* the call name returned m on the invisible bar and m2 on the visible one
A_Both(m, m2, name, arg) ==
    Returned(m, name, arg,
             [Observed(hist, m.c, m.out, name, now) EXCEPT !.twin = [c |-> m2.c, s |-> m2.s]],
             MaxCalls)

A_TwinAdd ==
    /\ A_Sequential
    /\ \E delta \in Deltas :
         A_Both(A_add(Machine, delta, now, arch), A_add(A_TwinMachine, delta, now, arch),
                "Add", delta)

A_TwinSet ==
    /\ A_Sequential
    /\ \E value \in SetValues :
         A_Both(A_Set(Machine, value, now, arch), A_Set(A_TwinMachine, value, now, arch),
                "Set", value)

A_TwinSetMax ==
    /\ A_Sequential
    /\ \E max \in SetMaxArgs :
         A_Both(A_setMax(Machine, max, now, arch), A_setMax(A_TwinMachine, max, now, arch),
                "SetMax", max)

A_TwinFinish ==
    /\ A_Sequential
    /\ A_Both(A_Finish(Machine, now, arch), A_Finish(A_TwinMachine, now, arch), "Finish", 0)

A_TwinStop ==
    /\ A_Sequential
    /\ A_Both(A_Stop(Machine, now, arch), A_Stop(A_TwinMachine, now, arch), "Stop", 0)

A_TwinBars == {MaxDelta + 1, -1} \X {A_OptPlain, A_OptBare, A_OptCount, A_OptIts, A_OptANSI}

InitTwinA ==
    /\ now = 0
    /\ \E b \in A_TwinBars :
         /\ arch \in Builds(b[1])
         /\ LET m == NewOptions64(b[1], [b[2] EXCEPT !.invisible = TRUE], 0)
                m2 == NewOptions64(b[1], b[2], 0)
            IN  /\ config = m.c /\ state = m.s /\ out = m.out
                /\ hist = [Observed(NoHist, m.c, m.out, "NewOptions64", 0)
                               EXCEPT !.twin = [c |-> m2.c, s |-> m2.s]]
    /\ calls = 0
    /\ lastOp = [NoOp EXCEPT !.name = "NewOptions64"]
    /\ ret = Nil
    /\ mu = 0
    /\ pc = [g \in Procs |-> "idle"]
    /\ tmp = [g \in Procs |-> 0]

NextTwinA == A_TwinAdd \/ A_TwinSet \/ A_TwinSetMax \/ A_TwinFinish \/ A_TwinStop \/ Tick

SpecTwinA == InitTwinA /\ [][NextTwinA]_vars

(***************************************************************************)
(* Goroutines on one bar of variant A: each calls Add(1), which takes the  *)
(* lock, or Clear() or String(), which take none.                          *)
(***************************************************************************)
\* the write of p.state.currentNum += delta and the rest of add
A_Store(g) ==
    /\ config.variant = "A"
    /\ pc[g] = "loaded"
    /\ Stores(g, A_add([Machine EXCEPT !.s.currentNum = tmp[g]], 1, now, arch))

\* goroutine g has run the method name, which left the machine m, and is done
A_Ran(g, m, name) ==
    /\ config' = m.c
    /\ state' = m.s
    /\ out' = m.out
    /\ ret' = m.err
    /\ calls' = calls + 1
    /\ lastOp' = Op(name, 0)
    /\ hist' = Observed(hist, m.c, m.out, name, now)
    /\ pc' = [pc EXCEPT ![g] = "done"]
    /\ UNCHANGED <<now, mu, tmp, arch>>

\* Clear(): clearProgressBar(p.config, p.state), whoever holds the lock
A_ClearNow(g) ==
    /\ config.variant = "A"
    /\ pc[g] = "start"
    /\ A_Ran(g, A_Clear(Machine), "Clear")

\* String(): the read of p.state.rendered, whoever holds the lock
A_StringNow(g) ==
    /\ config.variant = "A"
    /\ pc[g] = "start"
    /\ A_Ran(g, [Machine EXCEPT !.err = ret], "String")

A_ConcBars == {MaxProcs, MaxProcs + 1} \X {A_OptBare, A_OptCount, A_OptBlank}

InitConcA ==
    /\ now = 0
    /\ \E b \in A_ConcBars :
         /\ arch \in Builds(b[1])
         /\ LET m == NewOptions64(b[1], b[2], 0)
            IN  /\ config = m.c /\ state = m.s /\ out = m.out
                /\ hist = Observed(NoHist, m.c, m.out, "NewOptions64", 0)
    /\ calls = 0
    /\ lastOp = [NoOp EXCEPT !.name = "NewOptions64"]
    /\ ret = Nil
    /\ mu = 0
    /\ pc = [g \in Procs |-> "start"]
    /\ tmp = [g \in Procs |-> 0]

NextConcA ==
    \/ \E g \in Procs : Lock(g)
    \/ \E g \in Procs : Load(g)
    \/ \E g \in Procs : A_Store(g)
    \/ \E g \in Procs : Unlock(g)
    \/ \E g \in Procs : A_ClearNow(g)
    \/ \E g \in Procs : A_StringNow(g)
    \/ Tick

SpecConcA == InitConcA /\ [][NextConcA]_vars

(***************************************************************************)
(* Bars of variant A made with OptionOnCompletion, and the calls a program *)
(* makes on them.                                                          *)
(***************************************************************************)
A_DoneOptions ==
    {[o EXCEPT !.onCompletion = TRUE] :
         o \in {A_OptBare, A_OptCount, A_OptBlank, A_OptANSI, A_OptClear, A_OptHidden}}

A_DoneBars ==
    ({MaxDelta + 1} \X A_DoneOptions)
        \cup ({-1, 0} \X {[A_OptBare EXCEPT !.onCompletion = TRUE]})

InitDoneA ==
    /\ now = 0
    /\ \E b \in A_DoneBars :
         /\ arch \in Builds(b[1])
         /\ LET m == NewOptions64(b[1], b[2], 0)
            IN  /\ config = m.c /\ state = m.s /\ out = m.out
                /\ hist = Observed(NoHist, m.c, m.out, "NewOptions64", 0)
    /\ calls = 0
    /\ lastOp = [NoOp EXCEPT !.name = "NewOptions64"]
    /\ ret = Nil
    /\ mu = 0
    /\ pc = [g \in Procs |-> "idle"]
    /\ tmp = [g \in Procs |-> 0]

SpecDoneA == InitDoneA /\ [][NextA]_vars

(***************************************************************************)
(* A bar of variant A whose writer starts to fail at some moment: every    *)
(* Write from then on returns an error.                                    *)
(***************************************************************************)
A_WriterFails ==
    /\ A_Sequential
    /\ config.writer = "buffer"
    /\ config' = [config EXCEPT !.writer = "broken"]
    /\ UNCHANGED <<state, out, now, calls, lastOp, ret, mu, pc, tmp, arch, hist>>

NextFailA == NextA \/ A_WriterFails

SpecFailA == InitA /\ [][NextFailA]_vars

(***************************************************************************)
(* A bar of either variant with room for every Add, driven by Adds and     *)
(* Resets a while apart, long enough to fill the buffer of rate samples    *)
(* and to go round it.  The observer keeps a reference window of the       *)
(* samples: it appends each one and drops the head beyond the capacity.    *)
(***************************************************************************)
MaxRateCalls == 12
RateDeltas == {1}
\* the time between two calls, in ticks
RateSteps == {1, 2}

Push(w, r) == IF Len(w) < RateCap THEN Append(w, r) ELSE Append(Tail(w), r)

\* the observer after an Add of delta at time t took the state from s to s2:
\* the accumulator went back to zero when a sample was flushed, and the
\* sample is what was accumulated over the time since the last flush
Sampled(h, s, s2, delta, t) ==
    IF s2.counterNumSinceLast = 0 /\ s.counterNumSinceLast + delta > 0
    THEN [h EXCEPT !.window =
              Push(@, RatePerSecond(s.counterNumSinceLast + delta,
                                    t - (IF s.counterTime = ZeroTime THEN s.startTime
                                         ELSE s.counterTime))),
                   !.samples = @ + 1]
    ELSE h

\* a public call made dt after the last one returns the machine m
ReturnedAt(m, name, arg, dt, h) ==
    /\ calls < MaxRateCalls
    /\ ret # Panic
    /\ config' = m.c
    /\ state' = m.s
    /\ out' = m.out
    /\ ret' = m.err
    /\ calls' = calls + 1
    /\ lastOp' = Op(name, arg)
    /\ now' = now + dt
    /\ hist' = h
    /\ UNCHANGED <<mu, pc, tmp, arch>>

AddedAt(m, delta, dt) ==
    ReturnedAt(m, "Add", delta, dt,
               Sampled(Observed(hist, m.c, m.out, "Add", now + dt), state, m.s, delta, now + dt))

ResetAt(m, dt) ==
    ReturnedAt(m, "Reset", 0, dt,
               [Observed(hist, m.c, m.out, "Reset", now + dt) EXCEPT !.window = <<>>, !.samples = 0])

DoAddAt ==
    /\ Sequential
    /\ \E delta \in RateDeltas, dt \in RateSteps :
         AddedAt(add(Machine, delta, now + dt, arch), delta, dt)

DoResetAt ==
    /\ Sequential
    /\ \E dt \in RateSteps : ResetAt(Reset(Machine, now + dt), dt)

A_DoAddAt ==
    /\ A_Sequential
    /\ \E delta \in RateDeltas, dt \in RateSteps :
         AddedAt(A_add(Machine, delta, now + dt, arch), delta, dt)

A_DoResetAt ==
    /\ A_Sequential
    /\ \E dt \in RateSteps : ResetAt(A_Reset(Machine, now + dt), dt)

RateBars == {IntMax} \X {OptPlain, OptIts}
A_RateBars == {IntMax} \X {A_OptIts}

InitRates ==
    \/ InitWith(RateBars, "idle")
    \/ /\ now = 0
       /\ \E b \in A_RateBars :
            /\ arch \in Builds(b[1])
            /\ LET m == NewOptions64(b[1], b[2], 0)
               IN  /\ config = m.c /\ state = m.s /\ out = m.out
                   /\ hist = Observed(NoHist, m.c, m.out, "NewOptions64", 0)
       /\ calls = 0
       /\ lastOp = [NoOp EXCEPT !.name = "NewOptions64"]
       /\ ret = Nil
       /\ mu = 0
       /\ pc = [g \in Procs |-> "idle"]
       /\ tmp = [g \in Procs |-> 0]

NextRates ==
    \/ DoAddAt
    \/ DoResetAt
    \/ A_DoAddAt
    \/ A_DoResetAt

SpecRates == InitRates /\ [][NextRates]_vars

(***************************************************************************)
(* The properties checked.                                                 *)
(***************************************************************************)
\* the step is a public call of this name
Called(name) == calls' = calls + 1 /\ lastOp'.name = name

\* C1: when as many goroutines as the bar has room for each call Add(1) at
\* the same time, no call returns an error and, once all have returned, the
\* counter is the number of goroutines.
C1_ConcurrentAddsCount ==
    /\ ret = Nil
    /\ (\A g \in Procs : pc[g] = "done") => state.currentNum = MaxProcs

\* all goroutines are back and the bar of exactly that maximum is full
C1_Witness ==
    /\ \A g \in Procs : pc[g] = "done"
    /\ config.max = MaxProcs
    /\ state.currentNum = MaxProcs /\ state.finished
    /\ calls = MaxProcs

\* C2: on a determinate bar, an Add whose delta takes the counter above the
\* maximum returns a non-nil error, whatever the state it is called in.
C2_AddAboveMaxFails ==
    (lastOp.name = "Add" /\ ~config.ignoreLength
        /\ Wrap(lastOp.preNum + lastOp.arg) > config.max)
    => ret # Nil

\* an Add above the maximum was refused on a bar that was finished already
C2_Witness ==
    /\ lastOp.name = "Add" /\ ~config.ignoreLength /\ config.max > 0
    /\ lastOp.preFinished
    /\ lastOp.preNum + lastOp.arg > config.max
    /\ ret = ErrExceeds

\* C3: on a bar whose maximum is 0 or negative (and not a spinner), every Add
\* returns a non-nil error, writes nothing and leaves the rendered text as it was.
C3_NoMaxRejectsAdd ==
    [][(Called("Add") /\ ~config.ignoreLength /\ config.max <= 0)
        => (ret' # Nil /\ out' = <<>> /\ state'.rendered = state.rendered)]_vars

\* C4: once finished a bar stays finished through every call but Reset.
C4_FinishedIsOneWay ==
    [][(state.finished /\ ~Called("Reset")) => state'.finished]_vars

\* a finished bar was given a larger maximum and is still finished
C4_Witness ==
    /\ lastOp.name \in {"SetMax", "AddMax"} /\ lastOp.preFinished
    /\ ret = Nil /\ state.finished /\ state.currentNum < config.max

\* C5: on a determinate bar, a finished bar has its counter at or below the maximum.
C5_FinishedWithinMax ==
    (~config.ignoreLength /\ config.max > 0 /\ state.finished)
    => state.currentNum <= config.max

C7_FinishFillsTheBar ==
    (lastOp.name = "Finish" /\ ~lastOp.preFinished /\ ret = Nil)
    => (state.finished /\ state.currentNum = config.max)

\* C8: a Stop on a bar not yet finished leaves the bar finished and the
\* counter where it was.
C8_StopFinishesInPlace ==
    (lastOp.name = "Stop" /\ ~lastOp.preFinished)
    => (state.finished /\ state.currentNum = lastOp.preNum)

\* C10: Reset zeroes the counters, the rate samples, the widest line and the
\* rendered text, clears finished and stopped, takes the clock as the start
\* time, keeps the configuration and writes nothing.
C10_ResetIsFresh ==
    [][Called("Reset") =>
        /\ state'.currentNum = 0 /\ state'.currentBytes = 0
        /\ state'.currentPercent = 0 /\ state'.lastPercent = 0
        /\ state'.currentSaucerSize = 0
        /\ state'.counterLastTenRates = <<>> /\ state'.counterLastRatesIdx = 0
        /\ state'.counterNumSinceLast = 0
        /\ state'.maxLineWidth = 0 /\ state'.rendered = NoText
        /\ ~state'.finished /\ ~state'.stopped
        /\ state'.startTime = now
        /\ config' = config /\ out' = <<>>]_vars

\* a finished bar that had drawn lines was reset after the clock moved
C10_Witness ==
    /\ lastOp.name = "Reset" /\ lastOp.preFinished /\ lastOp.preNum > 0
    /\ now > 0 /\ state.startTime = now /\ ~state.finished
    /\ state.maxLineWidth = 0

\* C9: in variant A, after a Finish on a determinate bar whose counter was below
\* the maximum the bar is finished and the next Add of a positive delta
\* returns a non-nil error.
C9_NoAddAfterFinish ==
    [][(lastOp.name = "Finish" /\ lastOp.preNum < lastOp.preMax
            /\ ~config.ignoreLength /\ ~config.invisible
            /\ Called("Add") /\ lastOp'.arg > 0)
        => (A_IsFinished /\ ret' # Nil)]_vars

\* a Finish ended a determinate bar of variant A early
C9_Witness ==
    /\ lastOp.name = "Finish" /\ lastOp.preNum > 0 /\ lastOp.preNum < lastOp.preMax
    /\ ~config.ignoreLength /\ ret = Nil
    /\ A_IsFinished /\ state.currentNum = config.max

\* C11: on a determinate bar, a Set that returns nil leaves the counter at
\* the value it was given.
C11_SetReachesValue ==
    (lastOp.name = "Set" /\ ~config.ignoreLength /\ ret = Nil)
    => state.currentNum = lastOp.arg

\* C12: on a new determinate bar driven by Adds alone, whenever the deltas
\* handed in so far sum to at most the maximum, the counter and the raw count
\* of State().CurrentBytes both equal that sum.
C12_CountersEqualSum ==
    (~config.ignoreLength /\ hist.sum <= config.max)
    => (state.currentNum = hist.sum /\ state.currentBytes = hist.sum)

\* C13: on a spinner of a positive width driven by Adds alone the counter is
\* at least 0 and below the width.
C13_SpinnerCounterInWidth ==
    (config.ignoreLength /\ config.width > 0)
    => (0 <= state.currentNum /\ state.currentNum < config.width)

\* C14: on a spinner of a positive width no Add returns the bound error, no
\* Add makes the bar finished, and only Finish and Stop make it finished.
C14_SpinnerEndsByFinishOrStop ==
    [][(config.ignoreLength /\ config.width > 0)
        => /\ Called("Add") => (ret' # ErrExceeds /\ (state'.finished => state.finished))
           /\ (~state.finished /\ state'.finished)
                  => (Called("Finish") \/ Called("Stop"))]_vars

\* the sum and the mean of a window of samples, the latest first
RECURSIVE WindowSum(_)
WindowSum(w) ==
    IF w = <<>> THEN [n |-> 0, d |-> 1]
    ELSE FracAdd(w[Len(w)], WindowSum(SubSeq(w, 1, Len(w) - 1)))
WindowMean(w) ==
    IF IsInf(WindowSum(w)) THEN WindowSum(w)
    ELSE Frac(WindowSum(w).n, WindowSum(w).d * Len(w))

\* C15: in both variants the buffer of rate samples never holds more than
\* ten samples.
C15_RateBufferBounded == Len(state.counterLastTenRates) <= RateCap

\* variant A took a sample with its buffer full
C15_Witness ==
    /\ config.variant = "A" /\ lastOp.name = "Add"
    /\ hist.samples > RateCap
    /\ Len(state.counterLastTenRates) = RateCap
    /\ state.counterLastTenRates = hist.window

\* C16: in variant B, after k samples since the bar was made or reset, the
\* ring buffer holds min(k, 10) samples and, read from the oldest slot round,
\* is the reference window of the most recent ones; its average is the mean
\* of that window.
C16_RingIsSlidingWindow ==
    config.variant = "B"
    => /\ Len(state.counterLastTenRates)
            = (IF hist.samples < RateCap THEN hist.samples ELSE RateCap)
       /\ SubSeq(state.counterLastTenRates, state.counterLastRatesIdx + 1,
                 Len(state.counterLastTenRates))
              \o SubSeq(state.counterLastTenRates, 1, state.counterLastRatesIdx)
            = hist.window
       /\ hist.window # <<>>
            => average(state.counterLastTenRates) = WindowMean(hist.window)

\* the ring has gone round: two samples were overwritten
C16_Witness ==
    /\ config.variant = "B" /\ hist.samples = RateCap + 2
    /\ state.counterLastRatesIdx = 2
    /\ hist.window[1] # hist.window[RateCap]
    /\ state.counterLastTenRates # hist.window

\* C17: on a bar of variant B with a throttle interval T > 0, an Add or a Set
\* that leaves the counter below max less than T after the last frame reached
\* the writer writes nothing.
C17_ThrottledWritesNothing ==
    [][((Called("Add") \/ Called("Set"))
          /\ config.variant = "B" /\ config.throttleInterval > 0
          /\ state'.currentNum < config.max
          /\ hist.shown # ZeroTime
          /\ now - hist.shown < config.throttleInterval)
       => out' = <<>>]_vars

\* C18: on a visible, unfinished determinate bar of variant B, the Add or Set
\* that brings the counter to exactly max writes a frame showing 100%,
\* whatever the time since the last frame and the other options.
C18_FinalFrameWritten ==
    [][((Called("Add") \/ Called("Set"))
          /\ config.variant = "B" /\ config.visible /\ ~config.ignoreLength
          /\ ~state.finished
          /\ state.currentNum # config.max /\ state'.currentNum = config.max)
       => \E i \in Frames(out') : out'[i].f.k = "bar" /\ out'[i].f.pct = 100]_vars

\* C19: a bar of variant B that is not visible writes nothing to its writer,
\* in construction and in every call made on it, and no call on it returns
\* the writer's error.
C19_HiddenNeverWrites ==
    (config.variant = "B" /\ ~config.visible) => (out = <<>> /\ ret # ErrWrite)

\* Finish went through clearProgressBar on a hidden bar whose writer fails
C19_Witness ==
    /\ config.variant = "B" /\ ~config.visible /\ config.writer = "broken"
    /\ config.clearOnFinish /\ state.maxLineWidth > 0
    /\ lastOp.name = "Finish" /\ ~lastOp.preFinished
    /\ ret = Nil /\ out = <<>>

\* C20: on a bar of variant B that does not use ANSI codes, every frame
\* written after the first frame since the bar was made or reset comes right
\* after "\r", maxLineWidth spaces and "\r"; maxLineWidth does not decrease
\* except by Reset and is at least the width of every frame written since
\* the bar was made or reset.
C20_OverwriteBlanksWidest ==
    [][(config.variant = "B" /\ ~config.useANSICodes)
       => /\ \A i \in Frames(out') :
                (calls' = calls + 1 /\ hist.widest > 0)
                => /\ i > 1
                   /\ out'[i - 1] = [k |-> "blank", n |-> state.maxLineWidth]
          /\ lastOp'.name # "Reset" => state'.maxLineWidth >= state.maxLineWidth
          /\ state.maxLineWidth >= hist.widest
          /\ state'.maxLineWidth >= hist'.widest]_vars

\* a frame narrower than the widest one was written over a blanked line
C20_Witness ==
    /\ config.variant = "B" /\ ~config.useANSICodes /\ config.visible
    /\ Len(out) >= 2 /\ out[1].k = "blank" /\ out[2].k = "frame"
    /\ out[1].n = state.maxLineWidth /\ hist.widest = state.maxLineWidth
    /\ TextLen(out[2].f) < out[1].n

\* C21: in variant A, when a Write fails during the render an Add, Set,
\* SetMax, Finish, Stop or RenderBlank makes, that call returns the write
\* error, also when the Write is that of the final frame of the render in
\* which the bar becomes finished.
C21_WriteErrorReturned ==
    [][(config.variant = "A" /\ calls' = calls + 1
          /\ lastOp'.name \in {"Add", "Set", "SetMax", "Finish", "Stop", "RenderBlank"}
          /\ \E i \in 1..Len(out') : out'[i] = Failed)
       => ret' = ErrWrite]_vars

\* C22: on a bar of variant B, whatever New64 was given, no call of a public
\* method ends in a run-time panic: a failure is a returned error.
C22_NoPanic == config.variant = "B" => ret # Panic

\* C23: a bar of variant B is not finished right after New64 returns it,
\* whatever max it was given.
C23_NewBarIsRunning == (config.variant = "B" /\ calls = 0) => ~state.finished

\* C24: on a bar of variant A that is not finished, String() is not the
\* empty string, from the moment NewOptions64 or Reset returns.
C24_StringNotEmpty == (config.variant = "A" /\ ~state.finished) => A_String # NoText

\* C25: on a visible determinate bar of variant B, the Add that brings the
\* counter to max writes the frame showing 100% and a newline right after
\* it, without a call of Finish.
C25_NewlineAfterFinalFrame ==
    [][(Called("Add") /\ config.variant = "B" /\ config.visible
          /\ ~config.ignoreLength /\ config.max > 0 /\ ~state.finished
          /\ state.currentNum # config.max /\ state'.currentNum = config.max)
       => \E i \in Frames(out') :
              /\ out'[i].f.k = "bar" /\ out'[i].f.pct = 100
              /\ i < Len(out') /\ out'[i + 1].k = "nl"]_vars

\* C26: in variant A the onCompletion callback is called in the call after
\* which the bar is finished for the first time since NewOptions64 or Reset,
\* and in no other: once a run at most, and once when the bar is finished.
C26_CompletionOnce ==
    [][(config.variant = "A" /\ config.onCompletion /\ calls' = calls + 1)
       => /\ (\E i \in 1..Len(out') : out'[i] = Completed)
               <=> (~state.finished /\ state'.finished)
          /\ Cardinality({i \in 1..Len(out') : out'[i] = Completed}) <= 1
          /\ hist'.completions = (IF state'.finished THEN 1 ELSE 0)]_vars

\* a finished bar was given another Finish: the callback was called once
C26_Witness ==
    /\ config.variant = "A" /\ config.onCompletion
    /\ lastOp.name = "Finish" /\ lastOp.preFinished /\ state.finished
    /\ hist.completions = 1 /\ out = <<>>

\* C27: in variant A no public method reads the bar's state or writes to
\* the output while another goroutine holds the bar's lock: every method,
\* String() and Clear() included, holds the lock while it runs.
C27_MethodsHoldLock ==
    [][(config.variant = "A" /\ calls' = calls + 1)
       => \A g \in Procs : pc'[g] # pc[g] => mu \in {0, g}]_vars

\* C28: once a source has been read through Reader.Read until it reported
\* io.EOF, the bar's raw count is the number of bytes Read returned, the
\* bytes returned together with io.EOF included.
C28_ReaderCountsAllBytes ==
    (config.variant = "B" /\ hist.eof) => state.currentBytes = hist.read

\* C29: on a visible bar of variant B, an Add or Set that passes the bound
\* check and the throttle writes a frame if and only if the integer
\* percentage after the call differs from the last one recorded, or the
\* rate or the count is displayed, or the delta is 0.
C29_RenderDecision ==
    [][((Called("Add") \/ Called("Set"))
          /\ config.variant = "B" /\ config.visible
          /\ ret' = Nil
          /\ ~(/\ config.throttleInterval > 0
               /\ now - state.lastShown < config.throttleInterval
               /\ state'.currentNum < config.max))
       => ((Frames(out') # {})
              <=> \/ state'.currentPercent # state.lastPercent
                  \/ config.showIterationsPerSecond \/ config.showIterationsCount
                  \/ (IF Called("Add") THEN lastOp'.arg
                      ELSE Wrap(lastOp'.arg - ToInt(state.currentBytes, arch))) = 0)]_vars

\* C30: in variant B an Add(d) refused by the bound check changes the counter
\* to old + d (the int64 sum), above the maximum, and nothing else of the
\* state; it writes nothing.
C30_RefusedAddFrame ==
    [][(Called("Add") /\ config.variant = "B" /\ ret' = ErrExceeds)
       => /\ state' = [state EXCEPT !.currentNum = Wrap(state.currentNum + lastOp'.arg)]
          /\ state'.currentNum > config.max
          /\ out' = <<>>]_vars

\* a refused Add on a bar that had counted and shown progress
C30_Witness ==
    /\ config.variant = "B" /\ lastOp.name = "Add" /\ ret = ErrExceeds
    /\ lastOp.arg > 0 /\ lastOp.preNum > 0 /\ ~lastOp.preFinished
    /\ state.currentNum = lastOp.preNum + lastOp.arg
    /\ state.currentNum > config.max
    /\ state.currentBytes = lastOp.preNum /\ state.lastPercent > 0
    /\ state.counterLastTenRates # <<>> /\ state.counterNumSinceLast # 0
    /\ state.lastShown # ZeroTime
    /\ state.rendered # NoText /\ out = <<>>

\* C31: in variant B a frame written by a successful Add on a determinate
\* bar (max > 0) shows floor(100 * counter / max) percent and exactly width
\* cells between the bar ends, floor(counter * width / max) of them filled;
\* it shows 100% only when the counter equals max.
C31_FrameShowsCounter ==
    [][(Called("Add") /\ config.variant = "B" /\ ~config.ignoreLength
          /\ config.max > 0 /\ ret' = Nil)
       => \A i \in Frames(out') :
            out'[i].f.k = "bar"
            => /\ out'[i].f.pct = (100 * state'.currentNum) \div config.max
               /\ out'[i].f.fill + out'[i].f.pad = config.width
               /\ out'[i].f.fill = (state'.currentNum * config.width) \div config.max
               /\ (out'[i].f.pct = 100 => state'.currentNum = config.max)]_vars

C33_RemainingShownSane ==
    (config.variant = "B" /\ ~config.ignoreLength /\ config.predictTime)
    => \A i \in Frames(out) :
         /\ Len(out[i].f.brac) = (IF ~state.finished /\ 0 < state.currentNum
                                      /\ state.currentNum <= config.max
                                   THEN 2 ELSE 1)
         /\ Len(out[i].f.brac) = 2 => out[i].f.brac[2] >= 0

\* C34: in variant B a SetMax(v) with v < 0 and an AddMax(d) with max + d < 0
\* return the error "max must be nonnegative" and leave no negative max on
\* the bar.
C34_NegativeMaxRefused ==
    [][(config.variant = "B"
          /\ \/ Called("SetMax") /\ lastOp'.arg < 0
             \/ Called("AddMax") /\ config.max + lastOp'.arg < 0)
       => ret' = ErrNonneg /\ (config.max >= 0 => config'.max >= 0)]_vars

\* C35: in variant B a SetMax or AddMax that returns an error leaves the
\* configured max as it was (stated for calls that ask for a max >= 0).
C35_FailedSetMaxKeepsMax ==
    [][(config.variant = "B"
          /\ \/ Called("SetMax") /\ lastOp'.arg >= 0
             \/ Called("AddMax") /\ config.max + lastOp'.arg >= 0
          /\ ret' \notin {Nil, Panic})
       => config'.max = config.max]_vars

C37_FinishIdempotent ==
    [][(Called("Finish") /\ config.variant = "B"
          /\ lastOp.name = "Finish" /\ ret = Nil /\ state.finished)
       => state' = state /\ config' = config /\ out' = <<>>]_vars

\* C38: in variant A an invisible bar handed the same Add, Set, SetMax,
\* Finish and Stop calls as a visible bar with the same other options has
\* the same counter, the same State().CurrentBytes and the same IsFinished().
C38_VisibilityOnlyOutput ==
    (config.variant = "A" /\ config.invisible /\ hist.twin # <<>>)
    => /\ state.currentNum = hist.twin.s.currentNum
       /\ state.currentBytes = hist.twin.s.currentBytes
       /\ state.finished = hist.twin.s.finished

\* C39: in variant B with the rolling rate, the accumulator
\* counterNumSinceLast plus the amounts flushed into samples since the bar
\* was made or reset equals the sum of the deltas of the Adds that returned
\* nil (as int64 values), the throttled ones included, the refused ones not.
C39_RateAccountsEveryDelta ==
    (config.variant = "B" /\ ~config.totalRate /\ ret # Panic)
    => Wrap(state.counterNumSinceLast + hist.flushed) = Wrap(hist.sum)

\* a throttled Add, after a flush and a refused Add (the counter holds the
\* refused delta, the sum does not), left something in the accumulator
C39_Witness ==
    /\ config.variant = "B" /\ ~config.totalRate /\ ~config.ignoreLength
    /\ lastOp.name = "Add" /\ ret = Nil /\ lastOp.arg # 0 /\ out = <<>>
    /\ Throttled(config, state, now)
    /\ hist.flushed > 0 /\ state.counterNumSinceLast # 0
    /\ state.counterLastTenRates # <<>>
    /\ hist.sum = hist.flushed + state.counterNumSinceLast
    /\ config.max = MaxDelta + 1 /\ state.currentNum > hist.sum /\ hist.sum >= 0

====
